---- MODULE Spec2Model ----
(***************************************************************************)
(* Proposal generator: the fact store (database.py), the extraction gateway *)
(* (main.py), the template binder (proposal_generator.py) and the page      *)
(* logic of the interactive frontend (streamlit_app.py).                    *)
(*                                                                          *)
(* Two specifications share the state:                                      *)
(*   StoreSpec  the fact store driven directly through its three functions  *)
(*   Spec       one browser session of the page script, and runs of the     *)
(*              command-line generator on the same store                    *)
(***************************************************************************)
EXTENDS Integers, Sequences, FiniteSets, TLC

VARIABLES
    proposals,       \* table "proposals": sequence of [id, name], id = position
    proposal_data,   \* table "proposal_data": rows in insertion order
    session_state,   \* st.session_state of the page script
    uploaded_files,  \* the file_uploader widget: the names of the files in it
    time,            \* the clock, in days (day 0 is a Monday): int(time.time()) and
                     \* datetime.date.today() both read it
    client,          \* whether the page has an OpenAI client (the API key is set)
    log              \* history: what the last operation was given and did

vars == <<proposals, proposal_data, session_state, uploaded_files, time, client, log>>

-----------------------------------------------------------------------------
(* Bounds of the model *)

MaxRows == 2        \* rows of table proposal_data (StoreSpec)
MaxEntries == 2     \* entries of one mapping given to the store or replied by the model
MaxFaultAt == 2     \* a storage fault hits after at most MaxFaultAt - 1 flushed rows
MaxProposals == 2   \* proposals one session creates (Spec)
MaxEvents == 3      \* widget events one session handles (Spec)
MaxTime == 1        \* clock ticks (Spec)
MaxReplyEntries == 1 \* entries of one model reply (Spec)
MaxEdits == 1       \* fields the user changes in the review form before a submit (Spec)
MaxDay == 13         \* last day the default dates are calculated on (DatesSpec)

-----------------------------------------------------------------------------
(* Python values.  Every value is a record tagged with its Python type.     *)
(* A text is tagged with what it spells: free text, a number, or a date in  *)
(* one of the two formats the code reads and writes.                        *)

None == [t |-> "None"]
Str(s) == [t |-> "str", k |-> "txt", txt |-> s]
\* the text of number n: "1200", "1200.0", or "$1,200" when money is TRUE
NumStr(n, point, money) == [t |-> "str", k |-> "num", n |-> n, point |-> point, money |-> money]
\* the text of day d in format fmt: "%B %d, %Y" or "%Y-%m-%d"
DateStr(fmt, d) == [t |-> "str", k |-> "date", fmt |-> fmt, d |-> d]
PyInt(n) == [t |-> "int", n |-> n]
PyFloat(n) == [t |-> "float", n |-> n]
PyDate(d) == [t |-> "date", d |-> d]

IsStr(v) == v.t = "str"
IsNum(v) == v.t \in {"int", "float"}

\* bool(v): None, "", 0 and 0.0 are falsy
Truthy(v) ==
    CASE v.t = "None" -> FALSE
      [] v.t = "str" -> ~(v.k = "txt" /\ v.txt = "")
      [] v.t \in {"int", "float"} -> v.n # 0
      [] OTHER -> TRUE

\* str(v)
pyStr(v) ==
    CASE v.t = "None" -> Str("None")
      [] v.t = "str" -> v
      [] v.t = "int" -> NumStr(v.n, FALSE, FALSE)
      [] v.t = "float" -> NumStr(v.n, TRUE, FALSE)
      [] v.t = "date" -> DateStr("%Y-%m-%d", v.d)

\* s.strip(): the free texts of the model are "", " " and words without blanks
pyStrip(s) == IF s.k = "txt" /\ s.txt = " " THEN Str("") ELSE s

\* s.replace('$', '').replace(',', '')
StripMoney(s) == IF s.k = "num" THEN NumStr(s.n, s.point, FALSE) ELSE s

\* float(v): [ok, n]; a text parses when it spells a plain number
pyFloatOf(v) ==
    CASE v.t \in {"int", "float"} -> [ok |-> TRUE, n |-> v.n]
      [] v.t = "str" /\ v.k = "num" /\ ~v.money -> [ok |-> TRUE, n |-> v.n]
      [] OTHER -> [ok |-> FALSE, n |-> 0]

\* datetime.datetime.strptime(s, fmt).date(): [ok, d]
strptime(s, fmt) ==
    IF s.t = "str" /\ s.k = "date" /\ s.fmt = fmt
    THEN [ok |-> TRUE, d |-> s.d]
    ELSE [ok |-> FALSE, d |-> 0]

\* d.strftime(fmt)
strftime(d, fmt) == DateStr(fmt, d)

-----------------------------------------------------------------------------
(* Python dicts: functions from a finite set of keys.  Iteration follows    *)
(* the fixed order AllKeys.                                                 *)

date_keys == {"proposal_date", "auction_end_date", "closing_date", "contract_date", "advertising_start_date"}
marketing_keys == <<"marketing_facebook_cost", "marketing_google_cost", "marketing_mail_cost", "marketing_drone_cost", "marketing_sign_cost">>
cost_keys == {marketing_keys[i] : i \in 1..Len(marketing_keys)}
\* mutant: only the marketing total is treated as calculated
calculated_keys_total_only == {"marketing_total_budget"}

calculated_keys == {"marketing_total_budget", "retainer_amount"}

\* the recognized keys of extract_structured_data
required_keys == date_keys \cup cost_keys \cup
    {"client_first_name", "client_last_name", "client_company", "client_street_address",
     "client_city", "client_state", "client_postal_code", "client_salutation_name",
     "property_description", "deposit_percentage", "escrow_agent_name",
     "buyers_premium_percentage"}

\* a key no template and no key list of the code knows
SurplusKey == "internal_notes"

AllKeys == <<"advertising_start_date", "auction_end_date", "client_company", "closing_date",
             "contract_date", "internal_notes", "marketing_drone_cost", "marketing_facebook_cost",
             "marketing_google_cost", "marketing_mail_cost", "marketing_sign_cost",
             "marketing_total_budget", "proposal_date", "retainer_amount">>

EmptyDict == [k \in {} |-> None]

DictUpdate(d, e) == [k \in DOMAIN d \cup DOMAIN e |-> IF k \in DOMAIN e THEN e[k] ELSE d[k]]

\* the keys of d in iteration order
Items(d) == SelectSeq(AllKeys, LAMBDA k : k \in DOMAIN d)

Min(a, b) == IF a < b THEN a ELSE b

-----------------------------------------------------------------------------
(* Fact store: database.py.  db is [proposals, proposal_data].              *)

Db == [proposals |-> proposals, proposal_data |-> proposal_data]

\* db.query(Proposal).filter(Proposal.id == proposal_id).first()
HasProposal(db, proposal_id) == proposal_id \in 1..Len(db.proposals)

\* db.commit() of the pending rows: with no fault (fault = 0) all of them are
\* inserted; a fault stops the flush after fault - 1 rows
Commit(db, pending, fault) ==
    IF fault = 0
    THEN [db |-> [db EXCEPT !.proposal_data = @ \o pending], failed |-> FALSE]
    ELSE [db |-> [db EXCEPT !.proposal_data = @ \o SubSeq(pending, 1, Min(fault - 1, Len(pending)))],
          failed |-> TRUE]

\* the rollback mutated: the rows flushed before the fault stay
Rollback_keeps_flushed(begin, flushed) == flushed

\* db.rollback(): the store as it was when the transaction began
Rollback(begin, flushed) == begin

\* create_proposal mutated: no unique constraint on the name
create_proposal_no_unique(db, proposal_name, fault) ==
    IF fault # 0
    THEN [db |-> db, raised |-> "SQLAlchemyError", id |-> 0]
    ELSE [db |-> [db EXCEPT !.proposals = Append(@, [id |-> Len(@) + 1, name |-> proposal_name])],
          raised |-> "", id |-> Len(db.proposals) + 1]

create_proposal(db, proposal_name, fault) ==
    IF \E i \in 1..Len(db.proposals) : db.proposals[i].name = proposal_name
    THEN [db |-> Rollback(db, db), raised |-> "IntegrityError", id |-> 0]
    ELSE IF fault # 0
    THEN [db |-> Rollback(db, db), raised |-> "SQLAlchemyError", id |-> 0]
    ELSE [db |-> [db EXCEPT !.proposals = Append(@, [id |-> Len(@) + 1, name |-> proposal_name])],
          raised |-> "", id |-> Len(db.proposals) + 1]

\* str_value = str(value) if value is not None else None
str_value(value) == IF value = None THEN None ELSE pyStr(value)

\* the rows add_proposal_data builds from data_dict
NewEntries(proposal_id, data_dict) ==
    LET items == Items(data_dict)
    IN [i \in 1..Len(items) |->
          [proposal_id |-> proposal_id, key |-> items[i], value |-> str_value(data_dict[items[i]])]]

\* add_proposal_data mutated: the values are stored as given
add_proposal_data_raw(db, proposal_id, data_dict, fault) ==
    LET items == Items(data_dict)
        pending == [i \in 1..Len(items) |->
                      [proposal_id |-> proposal_id, key |-> items[i], value |-> data_dict[items[i]]]]
    IN [db |-> [db EXCEPT !.proposal_data = @ \o pending], raised |-> "", new_entries |-> pending,
        flushed |-> Len(pending)]

\* add_proposal_data mutated: a row of the proposal with the same key is replaced
add_proposal_data_upsert(db, proposal_id, data_dict, fault) ==
    LET pending == NewEntries(proposal_id, data_dict)
        kept == SelectSeq(db.proposal_data,
                          LAMBDA r : ~(r.proposal_id = proposal_id /\ r.key \in DOMAIN data_dict))
    IN [db |-> [db EXCEPT !.proposal_data = kept \o pending], raised |-> "",
        new_entries |-> pending, flushed |-> Len(pending)]

add_proposal_data(db, proposal_id, data_dict, fault) ==
    IF ~HasProposal(db, proposal_id)
    THEN [db |-> Rollback(db, db), raised |-> "ValueError", new_entries |-> <<>>, flushed |-> 0]
    ELSE LET pending == NewEntries(proposal_id, data_dict)
             c == Commit(db, pending, fault)
         IN IF c.failed
            THEN [db |-> Rollback(db, c.db), raised |-> "SQLAlchemyError", new_entries |-> <<>>,
                  flushed |-> Len(c.db.proposal_data) - Len(db.proposal_data)]
            ELSE [db |-> c.db, raised |-> "", new_entries |-> pending, flushed |-> Len(pending)]

NoProposal == [found |-> FALSE, id |-> 0, name |-> "", data_entries |-> <<>>]

get_proposal_with_data(db, proposal_id) ==
    IF HasProposal(db, proposal_id)
    THEN [found |-> TRUE, id |-> proposal_id, name |-> db.proposals[proposal_id].name,
          data_entries |-> SelectSeq(db.proposal_data, LAMBDA r : r.proposal_id = proposal_id)]
    ELSE NoProposal

-----------------------------------------------------------------------------
(* Template binder: proposal_generator.py *)

\* the loop pass mutated: a key that is already set keeps its first value
FoldEntry_first_wins(data, entry) ==
    IF entry.value = None \/ entry.key \in DOMAIN data
    THEN data
    ELSE DictUpdate(data, [k \in {entry.key} |-> entry.value])

\* the loop pass mutated: the dictionary is started afresh at every row
FoldEntry_forgets(data, entry) ==
    IF entry.value = None
    THEN EmptyDict
    ELSE [k \in {entry.key} |-> entry.value]

\* one pass of the loop of get_proposal_data_as_dict over entry
FoldEntry(data, entry) ==
    IF entry.value = None
    THEN data
    ELSE IF entry.key \in cost_keys
    THEN LET f == pyFloatOf(StripMoney(entry.value))
         IN DictUpdate(data, [k \in {entry.key} |-> IF f.ok THEN PyFloat(f.n) ELSE entry.value])
    ELSE DictUpdate(data, [k \in {entry.key} |-> entry.value])

RECURSIVE FoldEntries(_, _)
FoldEntries(data, entries) ==
    IF entries = <<>> THEN data
    ELSE FoldEntries(FoldEntry(data, Head(entries)), Tail(entries))

get_proposal_data_as_dict(db_proposal) ==
    IF ~db_proposal.found \/ db_proposal.data_entries = <<>>
    THEN EmptyDict
    ELSE FoldEntries(EmptyDict, db_proposal.data_entries)

\* the templates directory: the template names and the variables each references
available_templates == <<"auction", "letter">>
TemplateVariables(template_name) ==
    IF template_name = "auction"
    THEN {"client_company", "proposal_date", "marketing_drone_cost",
          "marketing_total_budget", "retainer_amount"}
    ELSE {"client_company", "marketing_total_budget"}

TemplateExists(template_name) == \E i \in 1..Len(available_templates) : available_templates[i] = template_name

\* the template object, "" for None
load_jinja_template(template_name) == IF TemplateExists(template_name) THEN template_name ELSE ""

find_jinja_placeholders(template_name) ==
    IF TemplateExists(template_name) THEN TemplateVariables(template_name) ELSE {}

Undefined == [t |-> "Undefined"]

\* what evaluating a template can do: raise, give text, or give text that itself
\* begins with the words "Error rendering template:"
Evaluations == {"text", "marker text", "raises"}

\* fill_template_jinja: the string returned. On an exception it is the message
\* "Error rendering template: ..."; otherwise template.render(context_data), every
\* variable of the template with what it is replaced by
fill_template_jinja(template, context_data, evaluation) ==
    IF evaluation = "raises"
    THEN [t |-> "str", starts_with_error |-> TRUE, template |-> template, text |-> EmptyDict]
    ELSE [t |-> "str", starts_with_error |-> evaluation = "marker text", template |-> template,
          text |-> [k \in TemplateVariables(template) |->
                      IF k \in DOMAIN context_data THEN context_data[k] ELSE Undefined]]

\* content.startswith("Error rendering template:")
startswith_error(content) == content.starts_with_error

-----------------------------------------------------------------------------
(* Extraction gateway: main.py.  A model reply is [ok, json]: ok is FALSE   *)
(* when the call fails or the content is no JSON.                           *)

extract_structured_data(reply) ==
    IF reply.ok
    THEN [raised |-> "", data |-> reply.json]
    ELSE [raised |-> "HTTPException", data |-> EmptyDict]

-----------------------------------------------------------------------------
(* Frontend helpers: streamlit_app.py *)

\* get_ai_best_guesses mutated: the reply is returned unfiltered
get_ai_best_guesses_unfiltered(ai_client, existing_data, missing_keys, reply) ==
    IF missing_keys = {} THEN [called |-> FALSE, failed |-> FALSE, guesses |-> EmptyDict]
    ELSE IF ~reply.ok THEN [called |-> TRUE, failed |-> TRUE, guesses |-> EmptyDict]
    ELSE [called |-> TRUE, failed |-> FALSE, guesses |-> reply.json]

\* get_ai_best_guesses mutated: the model is asked even when no key is missing
get_ai_best_guesses_always_asks(ai_client, existing_data, missing_keys, reply) ==
    IF ~reply.ok
    THEN [called |-> TRUE, failed |-> TRUE, guesses |-> EmptyDict]
    ELSE [called |-> TRUE, failed |-> FALSE,
          guesses |-> [k \in DOMAIN reply.json \cap missing_keys |-> reply.json[k]]]

get_ai_best_guesses(ai_client, existing_data, missing_keys, reply) ==
    IF missing_keys = {}
    THEN [called |-> FALSE, failed |-> FALSE, guesses |-> EmptyDict]
    ELSE IF ~reply.ok
    THEN [called |-> TRUE, failed |-> TRUE, guesses |-> EmptyDict]
    ELSE [called |-> TRUE, failed |-> FALSE,
          guesses |-> [k \in DOMAIN reply.json \cap missing_keys |-> reply.json[k]]]

\* date.weekday(): 0 = Monday ... 6 = Sunday
weekday(d) == d % 7

get_next_weekday(start_date, wd) ==
    LET days_ahead == wd - weekday(start_date)
    IN start_date + (IF days_ahead < 0 THEN days_ahead + 7 ELSE days_ahead)

\* the while loop of the closing date: forward to Monday from a weekend
SkipWeekend(d) == IF weekday(d) = 5 THEN d + 2 ELSE IF weekday(d) = 6 THEN d + 1 ELSE d

\* mutant: the contract date is the first Friday after today, never moved a week on
DefaultDays_naive_friday(day) ==
    LET contract == get_next_weekday(day + 1, 4)
        adv_start_monday_2 == get_next_weekday(contract, 0) + 7
        auction_end_wed == get_next_weekday(adv_start_monday_2 + 21, 2)
    IN [proposal_date |-> day, contract_date |-> contract,
        advertising_start_date |-> adv_start_monday_2, auction_end_date |-> auction_end_wed,
        closing_date |-> SkipWeekend(auction_end_wed + 30)]

\* mutant: the closing date is 31 days after the auction end, so the weekend loop moves it
DefaultDays_closing_31(day) ==
    LET next_fri == get_next_weekday(day + 1, 4)
        contract == IF weekday(next_fri) = 4 /\ next_fri <= day + 7 THEN next_fri + 7 ELSE next_fri
        adv_start_monday_2 == get_next_weekday(contract, 0) + 7
        auction_end_wed == get_next_weekday(adv_start_monday_2 + 21, 2)
    IN [proposal_date |-> day, contract_date |-> contract,
        advertising_start_date |-> adv_start_monday_2, auction_end_date |-> auction_end_wed,
        closing_date |-> SkipWeekend(auction_end_wed + 31)]

\* the date objects calculate_default_dates computes
DefaultDays(day) ==
    LET next_fri == get_next_weekday(day + 1, 4)
        contract == IF weekday(next_fri) = 4 /\ next_fri <= day + 7 THEN next_fri + 7 ELSE next_fri
        adv_start_monday_2 == get_next_weekday(contract, 0) + 7
        auction_end_wed == get_next_weekday(adv_start_monday_2 + 21, 2)
    IN [proposal_date |-> day, contract_date |-> contract,
        advertising_start_date |-> adv_start_monday_2, auction_end_date |-> auction_end_wed,
        closing_date |-> SkipWeekend(auction_end_wed + 30)]

calculate_default_dates(day) ==
    LET d == DefaultDays(day)
    IN [k \in date_keys |-> strftime(d[k], "%B %d, %Y")]

DEFAULT_MARKETING_COSTS ==
    [k \in cost_keys |->
        CASE k = "marketing_drone_cost" -> PyFloat(500)
          [] k = "marketing_facebook_cost" -> PyFloat(1000)
          [] k = "marketing_google_cost" -> PyFloat(1000)
          [] k = "marketing_mail_cost" -> PyFloat(500)
          [] k = "marketing_sign_cost" -> PyFloat(250)]

\* mutant: no default is applied
ApplyDefaults_none(data, defaults) == data

\* for key, default_value in combined_defaults.items(): set the key when it is
\* not in the data or its value is falsy
ApplyDefaults(data, defaults) ==
    [k \in DOMAIN data \cup DOMAIN defaults |->
        IF k \in DOMAIN defaults /\ (k \notin DOMAIN data \/ ~Truthy(data[k]))
        THEN defaults[k]
        ELSE data[k]]

\* the value the review form's widget for key shows for current_value
WidgetDefault(key, data, day) ==
    LET current_value == IF key \in DOMAIN data THEN data[key] ELSE Str("")
    IN IF key \in date_keys
       THEN IF IsStr(current_value) /\ Truthy(current_value)
            THEN LET a == strptime(current_value, "%B %d, %Y")
                     b == strptime(current_value, "%Y-%m-%d")
                 IN PyDate(IF a.ok THEN a.d ELSE IF b.ok THEN b.d ELSE day)
            ELSE IF current_value.t = "date" THEN current_value ELSE PyDate(day)
       ELSE IF key \in cost_keys
       THEN LET txt == StripMoney(pyStr(current_value))
                f == pyFloatOf(txt)
            IN PyFloat(IF Truthy(txt) /\ f.ok THEN f.n ELSE 0)
       ELSE pyStr(current_value)

\* the value the submit handler keeps for a widget value
Cleaned(key, value) ==
    IF key \in date_keys /\ value.t = "date"
    THEN strftime(value.d, "%B %d, %Y")
    ELSE pyStrip(pyStr(value))

-----------------------------------------------------------------------------
(* History record: the last operation, what it was given, what it did.      *)
(* reviewed and last_submit are kept across operations: reviewed holds the  *)
(* <<proposal id, template name>> pairs for which a review submit was       *)
(* saved, last_submit the values of the last saved submit, guess_calls the  *)
(* best-guess calls made since the session started or since the last saved  *)
(* submit; events counts the operations.                                    *)

NoLog ==
    [op |-> "", raised |-> "", proposal_id |-> 0, proposal_name |-> "",
     data_dict |-> EmptyDict, flushed |-> 0, returned |-> NoProposal, as_dict |-> EmptyDict,
     reviewed |-> {},
     extract_called |-> FALSE, extract_failed |-> FALSE, extract_data |-> EmptyDict,
     created_id |-> 0, seed_saved |-> FALSE,
     guess_needed |-> FALSE, guess_called |-> FALSE, guess_failed |-> FALSE,
     guess_wanted |-> {}, guess_surplus |-> FALSE, guesses |-> EmptyDict, guess_saved |-> FALSE,
     defaults_applied |-> FALSE, before_defaults |-> EmptyDict, after_defaults |-> EmptyDict,
     submitted |-> FALSE, submit_valid |-> FALSE, submit_saved |-> FALSE,
     final_edited_data |-> EmptyDict,
     generate_clicked |-> FALSE, generate_raised |-> FALSE, render_called |-> FALSE,
     bindings |-> EmptyDict, passes |-> 0, rerun_pending |-> FALSE, events |-> 0,
     cli_outcome |-> "", interviewed |-> {},
     last_submit |-> [proposal_id |-> 0, template_name |-> "", data |-> EmptyDict],
     guess_calls |-> 0,
     form_shown |-> FALSE, prefill_reached |-> FALSE, initial_missing_keys |-> {}, stored_missing_keys |-> {},
     evaluation |-> "", content |-> None,
     template_name |-> "", template_object |-> "", placeholders |-> {}, reply |-> EmptyDict,
     today |-> 0, default_dates |-> [k \in date_keys |-> None]]

-----------------------------------------------------------------------------
(* The page script: streamlit_app.py.  A run state S is [db, ss, files, log,  *)
(* rerun]: the store, st.session_state, the files in the uploader, the      *)
(* history, and whether st.rerun() was called.  ev is the widget event that *)
(* started the run; E holds what the outside world answers during it.       *)

InitSession ==
    [proposal_id |-> 0, proposal_name |-> "", extracted_data |-> EmptyDict,
     uploaded_file_names |-> <<>>, combined_context_text |-> <<>>,
     template_name |-> "", template_object |-> "", template_placeholders |-> {},
     current_proposal_data |-> EmptyDict, missing_keys |-> {}, interview_data |-> EmptyDict,
     final_proposal_content |-> None, ran_ai_prefill |-> FALSE]

NoEvent == [kind |-> "rerun", template |-> "", edits |-> EmptyDict]

\* the text the format-specific extractor finds in a file, "" when it finds none
FileText(name) == IF name \in {"lot_7.txt", "lot_8.txt"} THEN "Client: Acme Corp" ELSE ""
\* Path(name).stem
Stem(name) == IF name = "lot_7.txt" THEN "lot_7" ELSE IF name = "lot_8.txt" THEN "lot_8" ELSE IF name = "map.png" THEN "map" ELSE "blank"

\* current_proposal_data changed in place: extracted_data is the same dict object
\* whenever the upload step bound both names to it (a non-empty extraction)
InPlace(ss, data) ==
    [ss EXCEPT !.current_proposal_data = data,
               !.extracted_data = IF ss.extracted_data # EmptyDict THEN data ELSE @]

\* mutant: a failed extraction call leaves the files unmarked, as when no text was found
ExtractionFailed_unmarks(S, lg) ==
    [S EXCEPT !.log = lg, !.ss = [@ EXCEPT !.uploaded_file_names = <<>>]]

\* the except clauses of the extraction call: the error is shown, nothing else changes
ExtractionFailed(S, lg) == [S EXCEPT !.log = lg]

\* Step 1, after the text was combined: extraction call, create proposal, seed save
UploadExtract(S, current_file_names, E) ==
    LET x == extract_structured_data(E.extract)
        lg == [S.log EXCEPT !.extract_called = TRUE, !.extract_failed = x.raised # "",
                            !.extract_data = x.data]
    IN IF x.raised # ""
       THEN ExtractionFailed(S, lg)
       ELSE LET name == Stem(current_file_names[1]) \o "_" \o ToString(E.now)
                c == create_proposal(S.db, name, E.create_fault)
                a == add_proposal_data(c.db, c.id, x.data, E.seed_fault)
            IN IF c.raised # ""
               THEN [S EXCEPT !.log = [lg EXCEPT !.raised = c.raised]]
               ELSE IF x.data = EmptyDict
               THEN [S EXCEPT !.db = c.db, !.rerun = TRUE,
                              !.log = [lg EXCEPT !.created_id = c.id],
                              !.ss = [@ EXCEPT !.proposal_id = c.id, !.proposal_name = name]]
               ELSE IF a.raised # ""
               THEN [S EXCEPT !.db = a.db,
                              !.log = [lg EXCEPT !.created_id = c.id, !.raised = a.raised]]
               ELSE [S EXCEPT !.db = a.db, !.rerun = TRUE,
                              !.log = [lg EXCEPT !.created_id = c.id, !.seed_saved = TRUE],
                              !.ss = [@ EXCEPT !.proposal_id = c.id, !.proposal_name = name,
                                               !.extracted_data = x.data,
                                               !.current_proposal_data = x.data]]

\* Step 1: File Upload and Context Extraction
Step1(S, E) ==
    IF S.files = <<>> \/ S.files = S.ss.uploaded_file_names
    THEN S
    ELSE LET files == S.files
             all_text == SelectSeq([i \in 1..Len(files) |-> FileText(files[i])], LAMBDA t : t # "")
             reset == [S.ss EXCEPT !.proposal_id = 0, !.proposal_name = "",
                                   !.extracted_data = EmptyDict,
                                   !.current_proposal_data = EmptyDict,
                                   !.interview_data = EmptyDict, !.missing_keys = {},
                                   !.final_proposal_content = None,
                                   !.combined_context_text = all_text,
                                   !.uploaded_file_names = files]
         IN IF all_text = <<>>
            THEN [S EXCEPT !.ss = [reset EXCEPT !.uploaded_file_names = <<>>]]
            ELSE UploadExtract([S EXCEPT !.ss = reset], files, E)

\* Step 2: Review Data and Select Template
Step2(S, ev) ==
    IF S.rerun \/ S.ss.proposal_id = 0 \/ available_templates = <<>>
    THEN S
    ELSE LET selected_template ==
                 IF ev.kind = "select" THEN ev.template
                 ELSE IF TemplateExists(S.ss.template_name) THEN S.ss.template_name
                 ELSE available_templates[1]
             template_object == load_jinja_template(selected_template)
         IN IF selected_template = S.ss.template_name /\ S.ss.template_object # ""
            THEN S
            ELSE IF template_object # ""
            THEN [S EXCEPT !.rerun = TRUE,
                           !.ss = [@ EXCEPT !.template_name = selected_template,
                                            !.template_object = template_object,
                                            !.template_placeholders = find_jinja_placeholders(selected_template),
                                            !.missing_keys = {}, !.interview_data = EmptyDict,
                                            !.final_proposal_content = None]]
            ELSE [S EXCEPT !.ss = [@ EXCEPT !.template_name = selected_template,
                                            !.template_object = "",
                                            !.template_placeholders = {}]]

\* str(v) of every value of a dict: {k: str(v) for k, v in d.items()}
StrValues(d) == [k \in DOMAIN d |-> pyStr(d[k])]

\* mutant: the pre-fill step never marks itself done
MarkPrefillDone_skipped(ss) == ss

\* st.session_state.ran_ai_prefill = True, whatever the call returned
MarkPrefillDone(ss) == [ss EXCEPT !.ran_ai_prefill = TRUE]

\* Step 3, AI pre-fill: the best-guess call, the merge and the save
Prefill(S, E) ==
    LET ss == S.ss
        initial_missing_keys ==
            (ss.template_placeholders \ DOMAIN ss.current_proposal_data) \ calculated_keys
        \* history only: the missing set the stored facts of the proposal would give
        stored_missing_keys ==
            (ss.template_placeholders
                \ DOMAIN get_proposal_data_as_dict(get_proposal_with_data(S.db, ss.proposal_id)))
                \ calculated_keys
        seen == [S.log EXCEPT !.prefill_reached = TRUE,
                              !.initial_missing_keys = initial_missing_keys,
                              !.stored_missing_keys = stored_missing_keys]
    IN IF initial_missing_keys = {} \/ ss.ran_ai_prefill
       THEN [S EXCEPT !.log = seen]
       ELSE IF E.client /\ E.guess.kind = "unasked"
       THEN [S EXCEPT !.log = [seen EXCEPT !.guess_needed = TRUE, !.guess_wanted = initial_missing_keys]]
       ELSE LET reply == [ok |-> E.guess.kind = "reply", json |-> E.guess.json]
                g == IF E.client
                     THEN get_ai_best_guesses(E.client, ss.current_proposal_data, initial_missing_keys, reply)
                     ELSE [called |-> FALSE, failed |-> FALSE, guesses |-> EmptyDict]
                best_guesses == g.guesses
                a == add_proposal_data(S.db, ss.proposal_id, StrValues(best_guesses), E.guess_fault)
                lg == [seen EXCEPT !.guess_called = g.called, !.guess_failed = g.failed,
                                    !.guess_wanted = initial_missing_keys,
                                    !.guess_surplus = g.called /\ ~g.failed
                                                      /\ ~(DOMAIN reply.json \subseteq initial_missing_keys),
                                    !.guesses = best_guesses,
                                    !.guess_calls = IF g.called THEN @ + 1 ELSE @]
            IN IF best_guesses = EmptyDict
               THEN [S EXCEPT !.log = lg, !.ss = MarkPrefillDone(ss)]
               ELSE [S EXCEPT !.db = a.db,
                              !.log = [lg EXCEPT !.guess_saved = a.raised = ""],
                              !.ss = MarkPrefillDone(InPlace(ss, DictUpdate(ss.current_proposal_data,
                                                                            best_guesses)))]

\* the validity check mutated: empty values pass
valid_submission_any(final_edited_data) == TRUE

\* valid_submission: no cleaned value is empty
valid_submission(final_edited_data) ==
    \A k \in DOMAIN final_edited_data : Truthy(final_edited_data[k])

\* Step 3, the submit handler of review_edit_form
Submit(S, ev, E) ==
    LET ss == S.ss
        display_keys == ss.template_placeholders \ calculated_keys
        edited_responses ==
            [k \in display_keys |->
                IF k \in DOMAIN ev.edits THEN ev.edits[k]
                ELSE WidgetDefault(k, ss.current_proposal_data, E.today)]
        final_edited_data == [k \in display_keys |-> Cleaned(k, edited_responses[k])]
        valid == valid_submission(final_edited_data)
        a == add_proposal_data(S.db, ss.proposal_id, final_edited_data, E.review_fault)
        lg == [S.log EXCEPT !.submitted = TRUE, !.submit_valid = valid,
                            !.final_edited_data = final_edited_data]
    IN IF ~valid
       THEN [S EXCEPT !.log = lg]
       ELSE IF a.raised # ""
       THEN [S EXCEPT !.db = a.db, !.log = [lg EXCEPT !.raised = a.raised]]
       ELSE [S EXCEPT !.db = a.db, !.rerun = TRUE,
                      !.log = [lg EXCEPT !.submit_saved = TRUE,
                                         !.reviewed = @ \cup {<<ss.proposal_id, ss.template_name>>},
                                         !.guess_calls = 0,
                                         !.last_submit = [proposal_id |-> ss.proposal_id,
                                                          template_name |-> ss.template_name,
                                                          data |-> final_edited_data]],
                      !.ss = [InPlace(ss, DictUpdate(ss.current_proposal_data, final_edited_data))
                                 EXCEPT !.missing_keys = {}, !.ran_ai_prefill = FALSE]]

\* combined_defaults = {**default_dates, **DEFAULT_MARKETING_COSTS}
combined_defaults(day) ==
    [k \in date_keys \cup cost_keys |->
        IF k \in date_keys THEN calculate_default_dates(day)[k] ELSE DEFAULT_MARKETING_COSTS[k]]

\* Step 3, Apply Calculated Defaults: P is the run state after the AI pre-fill
Defaults(P, E) ==
    LET before == P.ss.current_proposal_data
        after == ApplyDefaults(before, combined_defaults(E.today))
    IN [P EXCEPT !.ss = InPlace(P.ss, after),
                 !.log = [@ EXCEPT !.defaults_applied = TRUE,
                                   !.before_defaults = before,
                                   !.after_defaults = after]]

\* Step 3, the review form: D is the run state the form is drawn from
review_edit_form(D) == [D EXCEPT !.log = [@ EXCEPT !.form_shown = TRUE]]

Review(D, ev, E) ==
    IF ev.kind = "submit" THEN Submit(review_edit_form(D), ev, E) ELSE review_edit_form(D)

\* Step 3: Interview / Review & Edit Mode
Step3(S, ev, E) ==
    IF S.rerun \/ S.ss.template_object = "" \/ S.ss.proposal_id = 0
    THEN S
    ELSE Review(Defaults(Prefill(S, E), E), ev, E)

\* sum(float(full_context.get(key, 0) or 0) for key in marketing_keys): [ok, n]
RECURSIVE SumCosts(_, _)
SumCosts(full_context, i) ==
    IF i > Len(marketing_keys) THEN [ok |-> TRUE, n |-> 0]
    ELSE LET key == marketing_keys[i]
             v == IF key \in DOMAIN full_context /\ Truthy(full_context[key])
                  THEN full_context[key] ELSE PyInt(0)
             f == pyFloatOf(v)
             rest == SumCosts(full_context, i + 1)
         IN [ok |-> f.ok /\ rest.ok, n |-> f.n + rest.n]

BaseRetainer == 10000

\* the calculated values mutated: the values stored under the two names stay
WithCalculated_keep_stored(full_context, total) ==
    DictUpdate([k \in calculated_keys |->
                   IF k = "marketing_total_budget" THEN PyFloat(total)
                   ELSE PyFloat(BaseRetainer - total)],
               full_context)

\* full_context['marketing_total_budget'] = ...; full_context['retainer_amount'] = ...
WithCalculated(full_context, total) ==
    DictUpdate(full_context,
               [k \in calculated_keys |->
                   IF k = "marketing_total_budget" THEN PyFloat(total)
                   ELSE PyFloat(BaseRetainer - total)])

\* the date keys of the context brought to "%B %d, %Y" where they parse
FormatDates(full_context) ==
    [k \in DOMAIN full_context |->
        IF k \in date_keys
        THEN LET a == strptime(pyStr(full_context[k]), "%Y-%m-%d")
                 b == strptime(pyStr(full_context[k]), "%B %d, %Y")
             IN IF a.ok THEN strftime(a.d, "%B %d, %Y")
                ELSE IF b.ok THEN strftime(b.d, "%B %d, %Y")
                ELSE full_context[k]
        ELSE full_context[k]]

\* Step 4: Generate and Download Proposal
can_generate(ss) == ss.template_object # "" /\ ss.proposal_id # 0 /\ ss.missing_keys = {}

Step4(S, ev, E) ==
    IF S.rerun \/ ~can_generate(S.ss) \/ ev.kind # "generate"
    THEN S
    ELSE LET db_proposal == get_proposal_with_data(S.db, S.ss.proposal_id)
             stored == get_proposal_data_as_dict(db_proposal)
             total == SumCosts(stored, 1)
             full_context == FormatDates(WithCalculated(stored, total.n))
             content == fill_template_jinja(S.ss.template_object, full_context, E.evaluation)
             lg == [S.log EXCEPT !.generate_clicked = TRUE, !.as_dict = stored]
         IN IF ~total.ok
            THEN [S EXCEPT !.log = [lg EXCEPT !.generate_raised = TRUE],
                           !.ss = [@ EXCEPT !.final_proposal_content = None]]
            ELSE [S EXCEPT !.log = [lg EXCEPT !.render_called = TRUE, !.bindings = full_context,
                                              !.evaluation = E.evaluation],
                           !.ss = [@ EXCEPT !.final_proposal_content =
                                               IF startswith_error(content) THEN None ELSE content]]

\* one run of the script, top to bottom; st.rerun() ends it early
Pass(S, ev, E) ==
    LET S0 == [S EXCEPT !.rerun = FALSE, !.log = [@ EXCEPT !.passes = @ + 1]]
    IN Step4(Step3(Step2(Step1(S0, E), ev), ev, E), ev, E)

\* st.rerun(): the script runs again, with no widget event
Again(S, E) == IF S.rerun THEN Pass(S, NoEvent, E) ELSE S

\* the run the event starts, and the runs st.rerun() starts after it
Run(S, ev, E) == Again(Again(Pass(S, ev, E), E), E)

-----------------------------------------------------------------------------
(* The command-line generator: generate_proposal of proposal_generator.py.  *)
(* answers holds, for every key, the first input the interview accepts.     *)

\* interactive_interview: empty input is asked again; for a cost key an input that
\* is no number is asked again, and the number is kept as a float
interactive_interview(missing_keys, answers) ==
    [k \in missing_keys |->
        IF k \in cost_keys THEN PyFloat(pyFloatOf(StripMoney(answers[k])).n) ELSE answers[k]]

\* steps 6 to 8: the calculated values, the render, the save of the text
CliFill(db, template, interviewed, full_context, evaluation) ==
    LET total == SumCosts(full_context, 1)
        bindings ==
            IF total.ok
            THEN WithCalculated(full_context, total.n)
            ELSE DictUpdate(full_context,
                            [k \in calculated_keys |->
                                IF k = "marketing_total_budget" THEN PyInt(0) ELSE PyInt(BaseRetainer)])
        content == fill_template_jinja(template, bindings, evaluation)
    IN [db |-> db, outcome |-> IF startswith_error(content) THEN "render error" ELSE "saved",
        interviewed |-> interviewed, context |-> full_context, bindings |-> bindings,
        content |-> content]

\* steps 4 and 5: the missing keys, the interview, the save of the answers
CliInterview(db, proposal_id, template, existing_data, answers, fault, evaluation) ==
    LET missing_keys == (find_jinja_placeholders(template) \ DOMAIN existing_data) \ calculated_keys
        newly_filled_data == interactive_interview(missing_keys, answers)
    IN CliFill(IF missing_keys # {}
               THEN add_proposal_data(db, proposal_id, StrValues(newly_filled_data), fault).db
               ELSE db,
               template, missing_keys, DictUpdate(existing_data, newly_filled_data), evaluation)

CliReturn(db, outcome) ==
    [db |-> db, outcome |-> outcome, interviewed |-> {}, context |-> EmptyDict,
     bindings |-> EmptyDict, content |-> None]

generate_proposal(db, proposal_id, template_name, answers, fault, evaluation) ==
    IF load_jinja_template(template_name) = ""
    THEN CliReturn(db, "no template")
    ELSE IF ~get_proposal_with_data(db, proposal_id).found
    THEN CliReturn(db, "not found")
    ELSE CliInterview(db, proposal_id, load_jinja_template(template_name),
                      get_proposal_data_as_dict(get_proposal_with_data(db, proposal_id)),
                      answers, fault, evaluation)

-----------------------------------------------------------------------------
(* Inputs of the store functions *)

Names == {"lot_7", "farm_2"}
StoreKeys == {"client_company", "marketing_drone_cost"}
\* the ids a caller may name: one per name, and one that no proposal has
ProposalIds == 1..(Cardinality(Names) + 1)

ValuesFor(k) ==
    IF k \in cost_keys
    THEN {NumStr(1200, FALSE, TRUE), Str("abc")}
    ELSE {PyInt(7), None}

\* the mappings over keys with at most MaxEntries entries
Mappings(keys) ==
    UNION {[dom -> UNION {ValuesFor(k) : k \in dom}] : dom \in {d \in SUBSET keys : Cardinality(d) <= MaxEntries}}

WellTyped(m) == \A k \in DOMAIN m : m[k] \in ValuesFor(k)
StoreMappings == {m \in Mappings(StoreKeys) : WellTyped(m)}

StoreInit ==
    /\ proposals = <<>>
    /\ proposal_data = <<>>
    /\ session_state = InitSession
    /\ uploaded_files = <<>>
    /\ time = 0
    /\ client = TRUE
    /\ log = NoLog

ApiCreateProposal ==
    \E proposal_name \in Names, fault \in {0, 1} :
        LET r == create_proposal(Db, proposal_name, fault)
        IN /\ proposals' = r.db.proposals
           /\ proposal_data' = r.db.proposal_data
           /\ log' = [NoLog EXCEPT !.op = "create_proposal", !.raised = r.raised,
                                   !.proposal_id = r.id, !.proposal_name = proposal_name]
           /\ UNCHANGED <<session_state, uploaded_files, time, client>>

ApiAddProposalData ==
    \E proposal_id \in ProposalIds, fault \in 0..MaxFaultAt :
      \E data_dict \in StoreMappings :
        LET r == add_proposal_data(Db, proposal_id, data_dict, fault)
        IN /\ Len(r.db.proposal_data) <= MaxRows
           /\ proposals' = r.db.proposals
           /\ proposal_data' = r.db.proposal_data
           /\ log' = [NoLog EXCEPT !.op = "add_proposal_data", !.raised = r.raised,
                                   !.proposal_id = proposal_id, !.data_dict = data_dict,
                                   !.flushed = r.flushed]
           /\ UNCHANGED <<session_state, uploaded_files, time, client>>

ApiGetProposal ==
    \E proposal_id \in ProposalIds :
        LET db_proposal == get_proposal_with_data(Db, proposal_id)
        IN /\ log' = [NoLog EXCEPT !.op = "get_proposal_with_data", !.proposal_id = proposal_id,
                                   !.returned = db_proposal,
                                   !.as_dict = get_proposal_data_as_dict(db_proposal)]
           /\ UNCHANGED <<proposals, proposal_data, session_state, uploaded_files, time, client>>

StoreNext == ApiCreateProposal \/ ApiAddProposalData \/ ApiGetProposal

StoreSpec == StoreInit /\ [][StoreNext]_vars

-----------------------------------------------------------------------------
(* Inputs of the page script *)

UploadChoices == {<<"lot_7.txt">>, <<"blank.png">>}

\* the mappings over keys with at most n entries, the value of key k drawn from V(k)
MappingsOver(keys, V(_), n) ==
    UNION {{m \in [dom -> UNION {V(k) : k \in dom}] : \A k \in dom : m[k] \in V(k)} :
              dom \in {d \in SUBSET keys : Cardinality(d) <= n}}

ExtractKeys == {"client_company", "marketing_drone_cost", "marketing_sign_cost", "retainer_amount", SurplusKey}
ExtractValuesFor(k) ==
    CASE k = "client_company" -> {Str("Acme"), None}
      [] k = "marketing_drone_cost" -> {PyInt(0), NumStr(12000, FALSE, TRUE), Str("abc")}
      [] k = "marketing_sign_cost" -> {Str("abc")}
      [] k = "retainer_amount" -> {PyInt(1)}
      [] OTHER -> {Str("x")}

FailedReply == [ok |-> FALSE, json |-> EmptyDict]
ExtractReplies ==
    {FailedReply} \cup {[ok |-> TRUE, json |-> m] : m \in MappingsOver(ExtractKeys, ExtractValuesFor, MaxReplyEntries)}

GuessKeys == {"client_company", SurplusKey}
GuessValuesFor(k) ==
    IF k \in date_keys THEN {DateStr("%Y-%m-%d", 10)}
    ELSE IF k \in cost_keys THEN {NumStr(300, FALSE, FALSE)}
    ELSE IF k = SurplusKey THEN {Str("x")}
    ELSE {Str("Bolt")}

Unasked == [kind |-> "unasked", json |-> EmptyDict]
GuessOutcomes(wanted) ==
    {[kind |-> "fail", json |-> EmptyDict]} \cup
    {[kind |-> "reply", json |-> m] :
        m \in MappingsOver((wanted \cup {SurplusKey}) \cap GuessKeys, GuessValuesFor, MaxReplyEntries)}

EditValuesFor(k) ==
    IF k \in date_keys THEN {PyDate(20)}
    ELSE IF k \in cost_keys THEN {PyFloat(0)}
    ELSE {Str(" "), Str("Bolt")}

Faults == {0, 1}

\* what the user types in the interview of the command-line generator
InterviewAnswers ==
    {[k \in required_keys |->
        IF k \in cost_keys THEN NumStr(300, FALSE, TRUE)
        ELSE IF k \in date_keys THEN DateStr("%Y-%m-%d", 10)
        ELSE Str("Bolt")]}

\* the template names typed at the command line: the templates and a name of none
CliTemplateNames == {available_templates[i] : i \in 1..Len(available_templates)} \cup {"memo"}

\* what the outside world answers during one event
Env(extract, create_fault, seed_fault, review_fault, evaluation) ==
    [extract |-> extract, create_fault |-> create_fault, seed_fault |-> seed_fault,
     guess |-> Unasked, guess_fault |-> 0, review_fault |-> review_fault,
     evaluation |-> evaluation, now |-> time, today |-> time, client |-> client]

Quiet == Env(FailedReply, 0, 0, 0, "text")

-----------------------------------------------------------------------------
(* One browser session: Spec *)

Init ==
    /\ proposals = <<>>
    /\ proposal_data = <<>>
    /\ session_state = InitSession
    /\ uploaded_files = <<>>
    /\ time = 0
    /\ client \in BOOLEAN
    /\ log = NoLog

Start(op, files) ==
    [db |-> Db, ss |-> session_state, files |-> files, rerun |-> FALSE,
     log |-> [NoLog EXCEPT !.op = op, !.reviewed = log.reviewed, !.last_submit = log.last_submit, !.guess_calls = log.guess_calls, !.events = log.events + 1]]

Settle(P) ==
    /\ Len(P.db.proposals) <= MaxProposals
    /\ proposals' = P.db.proposals
    /\ proposal_data' = P.db.proposal_data
    /\ session_state' = P.ss
    /\ uploaded_files' = P.files
    /\ log' = [P.log EXCEPT !.rerun_pending = P.rerun]
    /\ UNCHANGED <<time, client>>

\* the event runs to the end; when a run reaches the best-guess call, the model's
\* answer is drawn and the event is run with it
Answer(P, S, ev, E) ==
    IF P.log.guess_needed
    THEN \E guess \in GuessOutcomes(P.log.guess_wanted) :
           \E guess_fault \in (IF DOMAIN guess.json \cap P.log.guess_wanted # {} THEN Faults ELSE {0}) :
               Settle(Run(S, ev, [E EXCEPT !.guess = guess, !.guess_fault = guess_fault]))
    ELSE Settle(P)

Handle(S, ev, E) == log.events < MaxEvents /\ Answer(Run(S, ev, E), S, ev, E)

\* the user changes the files in the uploader
Upload ==
    \E files \in UploadChoices, extract \in ExtractReplies :
      \E create_fault \in (IF extract.ok THEN Faults ELSE {0}) :
        \E seed_fault \in (IF extract.ok /\ create_fault = 0 /\ extract.json # EmptyDict THEN Faults ELSE {0}) :
            /\ files # uploaded_files
            /\ Handle(Start("upload", files), NoEvent, Env(extract, create_fault, seed_fault, 0, "text"))

\* the user picks another template in the selectbox of step 2
SelectTemplate ==
    \E i \in 1..Len(available_templates) :
        /\ session_state.proposal_id # 0
        /\ available_templates[i] # session_state.template_name
        /\ Handle(Start("select", uploaded_files),
                  [NoEvent EXCEPT !.kind = "select", !.template = available_templates[i]], Quiet)

\* the user presses "Save Changes and Proceed" in the review form
SubmitForm ==
    \E review_fault \in Faults :
      \E edits \in MappingsOver(session_state.template_placeholders \ calculated_keys,
                               EditValuesFor, MaxEdits) :
        /\ session_state.template_object # "" /\ session_state.proposal_id # 0
        /\ Handle(Start("submit", uploaded_files),
                  [NoEvent EXCEPT !.kind = "submit", !.edits = edits],
                  Env(FailedReply, 0, 0, review_fault, "text"))

\* the user presses "Generate Proposal Document"
Generate ==
    \E evaluation \in Evaluations :
        /\ can_generate(session_state)
        /\ Handle(Start("generate", uploaded_files), [NoEvent EXCEPT !.kind = "generate"],
                  Env(FailedReply, 0, 0, 0, evaluation))

\* the page runs again with no widget changed
Rerun == Handle(Start("rerun", uploaded_files), NoEvent, Quiet)

\* time passes
Tick ==
        /\ time < MaxTime
        /\ time' = time + 1
        /\ log' = [NoLog EXCEPT !.op = "tick", !.reviewed = log.reviewed, !.last_submit = log.last_submit, !.guess_calls = log.guess_calls, !.events = log.events]
        /\ UNCHANGED <<proposals, proposal_data, session_state, uploaded_files, client>>

\* the command-line generator is run on the store the page uses
CliGenerate ==
    \E proposal_id \in 1..(Len(proposals) + 1), template_name \in CliTemplateNames :
      \E answers \in InterviewAnswers, fault \in Faults, evaluation \in Evaluations :
        LET r == generate_proposal(Db, proposal_id, template_name, answers, fault, evaluation)
        IN /\ log.events < MaxEvents
           /\ proposals' = r.db.proposals
           /\ proposal_data' = r.db.proposal_data
           /\ log' = [NoLog EXCEPT !.op = "generate_proposal", !.reviewed = log.reviewed, !.last_submit = log.last_submit, !.guess_calls = log.guess_calls,
                                   !.events = log.events + 1, !.proposal_id = proposal_id,
                                   !.cli_outcome = r.outcome, !.interviewed = r.interviewed,
                                   !.as_dict = r.context, !.bindings = r.bindings,
                                   !.evaluation = IF r.outcome \in {"saved", "render error"}
                                                  THEN evaluation ELSE ""]
           /\ UNCHANGED <<session_state, uploaded_files, time, client>>

Next == Upload \/ SelectTemplate \/ SubmitForm \/ Generate \/ Rerun \/ Tick \/ CliGenerate

Spec == Init /\ [][Next]_vars

-----------------------------------------------------------------------------
(* Claims on the fact store, checked under StoreSpec *)

\* the positions in table proposal_data of the rows of proposal_id
RowsOf(proposal_id) == {i \in 1..Len(proposal_data) : proposal_data[i].proposal_id = proposal_id}
RowsOfKey(proposal_id, k) == {i \in RowsOf(proposal_id) : proposal_data[i].key = k}
Last(S) == CHOOSE i \in S : \A j \in S : j <= i

\* C3 as stated: after add_proposal_data(P.id, M) succeeds, get_proposal_with_data(P.id)
\* returns the proposal with, for every key k of M, a row with key k and value str(M[k]).
C3_RoundTripStr ==
    (log.op = "add_proposal_data" /\ log.raised = "") =>
        LET got == get_proposal_with_data(Db, log.proposal_id)
        IN /\ got.found
           /\ \A k \in DOMAIN log.data_dict :
                \E i \in 1..Len(got.data_entries) :
                    /\ got.data_entries[i].key = k
                    /\ got.data_entries[i].value = pyStr(log.data_dict[k])

\* C3 amended: ... a row with key k whose value is str(M[k]) when M[k] is not null,
\* and null when M[k] is null.
C3_RoundTripStrOrNull ==
    (log.op = "add_proposal_data" /\ log.raised = "") =>
        LET got == get_proposal_with_data(Db, log.proposal_id)
        IN /\ got.found
           /\ \A k \in DOMAIN log.data_dict :
                \E i \in 1..Len(got.data_entries) :
                    /\ got.data_entries[i].key = k
                    /\ got.data_entries[i].value =
                          IF log.data_dict[k] = None THEN None ELSE pyStr(log.data_dict[k])

\* a successful add of a mapping that holds a null and a value that is not null
C3_Witness ==
    /\ log.op = "add_proposal_data" /\ log.raised = ""
    /\ \E k \in DOMAIN log.data_dict : log.data_dict[k] = None
    /\ \E k \in DOMAIN log.data_dict : log.data_dict[k] # None

\* C4 as stated: the effective fact mapping binds every key that has a row to the
\* value of the most recently inserted row for that key.
C4_LastRowWins ==
    (log.op = "get_proposal_with_data" /\ log.returned.found) =>
        LET keys == {proposal_data[i].key : i \in RowsOf(log.proposal_id)}
        IN /\ DOMAIN log.as_dict = keys
           /\ \A k \in keys :
                log.as_dict[k] = proposal_data[Last(RowsOfKey(log.proposal_id, k))].value

\* the value the mapping holds for a stored text: a marketing cost that spells a
\* number (with or without $ and ,) is held as that number
Held(k, text) == IF k \in cost_keys /\ text.k = "num" THEN PyFloat(text.n) ELSE text

\* C4 amended: the effective fact mapping binds every key that has a row with a
\* non-null value to the value of the most recently inserted such row (a marketing
\* cost that spells a number is held as the number); rows with a null value are skipped.
C4_LastNonNullRowWins ==
    (log.op = "get_proposal_with_data" /\ log.returned.found) =>
        LET nonNull(k) == {i \in RowsOfKey(log.proposal_id, k) : proposal_data[i].value # None}
            keys == {proposal_data[i].key : i \in RowsOf(log.proposal_id)}
        IN /\ DOMAIN log.as_dict = {k \in keys : nonNull(k) # {}}
           /\ \A k \in keys :
                nonNull(k) # {} => log.as_dict[k] = Held(k, proposal_data[Last(nonNull(k))].value)

\* the mapping of a proposal with two rows for one key that differ, read back
C4_Witness ==
    /\ log.op = "get_proposal_with_data" /\ log.returned.found
    /\ \E k \in DOMAIN log.as_dict :
         \E i, j \in RowsOfKey(log.proposal_id, k) :
            /\ i < j
            /\ proposal_data[i].value # None /\ proposal_data[j].value # None
            /\ proposal_data[i].value # proposal_data[j].value

\* C5: add_proposal_data on an absent proposal id fails with the not-found error, and
\* every failing add_proposal_data leaves both tables as they were before the call.
C5_AllOrNothing ==
    [][(log'.op = "add_proposal_data") =>
          /\ (~HasProposal(Db, log'.proposal_id) => log'.raised = "ValueError")
          /\ (log'.raised # "" => proposal_data' = proposal_data /\ proposals' = proposals)]_vars

\* a call that failed after a row had been flushed
C5_Witness ==
    /\ log.op = "add_proposal_data" /\ log.raised = "SQLAlchemyError"
    /\ log.flushed >= 1

UniqueNames(ps) == \A i, j \in 1..Len(ps) : ps[i].name = ps[j].name => i = j

\* C6: no two proposals ever have the same name; create_proposal with a name that
\* exists fails with the duplicate-name error and changes neither table.
C6_UniqueNames ==
    [][/\ UniqueNames(proposals')
       /\ (log'.op = "create_proposal" /\ \E i \in 1..Len(proposals) : proposals[i].name = log'.proposal_name)
             => (log'.raised = "IntegrityError" /\ proposals' = proposals /\ proposal_data' = proposal_data)]_vars

\* a refused duplicate while the proposal of that name holds facts
C6_Witness ==
    /\ log.op = "create_proposal" /\ log.raised = "IntegrityError"
    /\ \E i \in 1..Len(proposals) : proposals[i].name = log.proposal_name /\ RowsOf(i) # {}

-----------------------------------------------------------------------------
(* Session claims: Spec *)

\* the proposal and template the page is on
Current == <<session_state.proposal_id, session_state.template_name>>

\* C1 as stated: the render step for the current proposal and selected template is
\* performed only after the review form was successfully submitted for that proposal
\* and template.
C1_RenderOnlyAfterReview == log.render_called => Current \in log.reviewed

\* a value that is there and is not the empty text
Bound(v) == v # None /\ v # Str("") /\ v # Undefined

\* C2: at a render after a successful review submit for the proposal and template,
\* the mapping fetched from the store binds every non-calculated key of the template
\* to a non-empty value, and the rendered text has no unresolved placeholder.
C2_ReviewedKeysBound ==
    (log.render_called /\ Current \in log.reviewed) =>
        /\ \A k \in session_state.template_placeholders \ calculated_keys :
              k \in DOMAIN log.as_dict /\ Bound(log.as_dict[k])
        /\ session_state.final_proposal_content # None =>
              \A k \in session_state.template_placeholders :
                  Bound(session_state.final_proposal_content.text[k])

\* a render after a review submit, of a proposal whose extraction had given a null
C2_Witness ==
    /\ log.render_called /\ Current \in log.reviewed
    /\ session_state.final_proposal_content # None
    /\ \E i \in RowsOf(session_state.proposal_id) : proposal_data[i].value = None

\* the keys of the rows an operation added
NewRowKeys == {proposal_data'[i].key : i \in (Len(proposal_data) + 1)..Len(proposal_data')}

\* C7: the mapping get_ai_best_guesses returns has only keys of the missing keys it
\* was given; a surplus key of the reply reaches neither the session view nor the
\* store through it.
C7_GuessKeysWanted ==
    [][log'.guess_called =>
          /\ DOMAIN log'.guesses \subseteq log'.guess_wanted
          /\ (log'.guess_surplus /\ SurplusKey \notin DOMAIN log'.extract_data) =>
                /\ SurplusKey \in DOMAIN session_state'.current_proposal_data
                      => (log'.op # "upload" /\ SurplusKey \in DOMAIN session_state.current_proposal_data)
                /\ SurplusKey \notin NewRowKeys]_vars

\* a best-guess call whose reply held a key that was not asked for
C7_Witness == log.guess_called /\ log.guess_surplus /\ log.guess_wanted # {}

\* C8 as stated: the mapping extract_structured_data returns, and the seed rows the
\* upload step saves from it, have only recognized keys and no null value.
C8_ExtractRecognizedOnly ==
    (log.extract_called /\ ~log.extract_failed) =>
        /\ DOMAIN log.extract_data \subseteq required_keys
        /\ \A k \in DOMAIN log.extract_data : log.extract_data[k] # None
        /\ log.seed_saved =>
              \A i \in RowsOf(log.created_id) :
                  proposal_data[i].key \in required_keys /\ proposal_data[i].value # None

\* C9 as stated: applying the defaults changes the value of no key that is present
\* in the merged view, whatever value it holds.
C9_DefaultsKeepPresent ==
    log.defaults_applied =>
        \A k \in DOMAIN log.before_defaults : log.after_defaults[k] = log.before_defaults[k]

\* the bindings of the last operation were given to a template
Rendering == log.render_called \/ log.cli_outcome \in {"saved", "render error"}

\* the number a cost value spells, 0 for an absent, empty or unparseable one
CostOf(context, k) ==
    IF k \in DOMAIN context /\ Truthy(context[k]) /\ pyFloatOf(context[k]).ok
    THEN pyFloatOf(context[k]).n
    ELSE 0
TotalOf(context) ==
    CostOf(context, "marketing_facebook_cost") + CostOf(context, "marketing_google_cost")
    + CostOf(context, "marketing_mail_cost") + CostOf(context, "marketing_drone_cost")
    + CostOf(context, "marketing_sign_cost")

\* every cost value the context holds is empty or spells a number
CostsParse(context) ==
    \A k \in cost_keys \cap DOMAIN context : ~Truthy(context[k]) \/ pyFloatOf(context[k]).ok

C11_UnparseableCountsZero ==
    /\ log.generate_clicked => ~log.generate_raised
    /\ log.cli_outcome \in {"saved", "render error"} =>
          log.bindings["marketing_total_budget"].n = TotalOf(log.as_dict)


\* ---------------------------------------------------------------------------
\* DatesSpec: calculate_default_dates called on each day of two weeks
\* ---------------------------------------------------------------------------

DatesInit ==
    /\ proposals = <<>>
    /\ proposal_data = <<>>
    /\ session_state = InitSession
    /\ uploaded_files = <<>>
    /\ time \in 0..MaxDay
    /\ client = FALSE
    /\ log = NoLog

\* datetime.date.today() is the clock; the result is the dictionary of formatted dates
CalculateDefaultDates ==
    /\ log' = [NoLog EXCEPT !.op = "calculate_default_dates", !.today = time,
                            !.default_dates = calculate_default_dates(time)]
    /\ UNCHANGED <<proposals, proposal_data, session_state, uploaded_files, time, client>>

DatesTick ==
    /\ time < MaxDay
    /\ time' = time + 1
    /\ UNCHANGED <<proposals, proposal_data, session_state, uploaded_files, client, log>>

DatesNext == CalculateDefaultDates \/ DatesTick

DatesSpec == DatesInit /\ [][DatesNext]_vars

Calculated == log.op = "calculate_default_dates"

DayOf(key) == log.default_dates[key].d

\* Monday of the week (Monday to Sunday, as date.weekday() counts) that contains d
MondayOf(d) == d - weekday(d)

\* C12 as stated: whatever the day of the week of today, the default contract date is
\* the Friday of the calendar week right after the week that contains today.
C12_ContractFridayOfFollowingWeek ==
    Calculated => DayOf("contract_date") = MondayOf(log.today) + 7 + 4

\* C13: the default dates are ordered as the schedule requires: the proposal date is
\* today, the contract date a Friday at least 5 days out, the advertising start a Monday
\* not before the contract date, the auction end a Wednesday at least 21 days after the
\* advertising start, the closing date a weekday at least 30 days after the auction end.
C13_DefaultDatesSchedule ==
    Calculated =>
        /\ DayOf("proposal_date") = log.today
        /\ weekday(DayOf("contract_date")) = 4
        /\ DayOf("contract_date") >= log.today + 5
        /\ weekday(DayOf("advertising_start_date")) = 0
        /\ DayOf("advertising_start_date") >= DayOf("contract_date")
        /\ weekday(DayOf("auction_end_date")) = 2
        /\ DayOf("auction_end_date") >= DayOf("advertising_start_date") + 21
        /\ weekday(DayOf("closing_date")) < 5
        /\ DayOf("closing_date") >= DayOf("auction_end_date") + 30

\* the dates were calculated on a Thursday, where the contract date is closest to today
C13_Witness ==
    /\ Calculated
    /\ weekday(log.today) = 3
    /\ DayOf("contract_date") = log.today + 8


\* initial_missing_keys of the page, for the proposal and the template of the session
page_missing_keys ==
    (session_state.template_placeholders \ DOMAIN session_state.current_proposal_data)
        \ calculated_keys

\* missing_keys of generate_proposal for a stored proposal and a template
cli_missing_keys(db, proposal_id, template_name) ==
    (find_jinja_placeholders(template_name)
        \ DOMAIN get_proposal_data_as_dict(get_proposal_with_data(db, proposal_id)))
        \ calculated_keys

TemplateNames == {available_templates[i] : i \in DOMAIN available_templates}

\* C14: for a fixed proposal and template the missing set never gains a key: after any
\* step (seed save, guess merge, review submit, interview save) the missing set the
\* page computes, and the one the command-line generator computes from the store, are
\* subsets of what they were before the step.
C14_MissingNeverGrows ==
    [][/\ (session_state.proposal_id # 0 /\ Current' = Current)
            => page_missing_keys' \subseteq page_missing_keys
       /\ \A proposal_id \in 1..Len(proposals), template_name \in TemplateNames :
            cli_missing_keys([proposals |-> proposals', proposal_data |-> proposal_data'],
                             proposal_id, template_name)
                \subseteq cli_missing_keys(Db, proposal_id, template_name)]_vars

\* guesses were merged and saved for the proposal, and keys the guess call was asked
\* for are no longer missing, on the page and in the store
C14_Witness ==
    /\ log.guess_saved
    /\ page_missing_keys \subseteq log.guess_wanted
    /\ page_missing_keys # log.guess_wanted
    /\ cli_missing_keys(Db, session_state.proposal_id, session_state.template_name)
           \subseteq log.guess_wanted
    /\ cli_missing_keys(Db, session_state.proposal_id, session_state.template_name)
           # log.guess_wanted


NotSolicited(keys) == "marketing_total_budget" \notin keys /\ "retainer_amount" \notin keys

\* C15: the marketing total and the retainer amount are never asked of any fact source:
\* they are in no missing set (page or command line), not among the keys handed to the
\* best-guess call, not among the fields of the review form, and not among the keys
\* the interactive interview prompts for.
C15_CalculatedNeverSolicited ==
    /\ NotSolicited(page_missing_keys)
    /\ NotSolicited(session_state.missing_keys)
    /\ \A proposal_id \in 1..Len(proposals), template_name \in TemplateNames :
          NotSolicited(cli_missing_keys(Db, proposal_id, template_name))
    /\ NotSolicited(log.guess_wanted)
    /\ NotSolicited(DOMAIN log.final_edited_data)
    /\ NotSolicited(log.interviewed)

\* the best-guess call was made for a template that references both calculated keys
C15_Witness ==
    /\ log.guess_called
    /\ log.guess_wanted # {}
    /\ ~NotSolicited(session_state.template_placeholders)


\* ---------------------------------------------------------------------------
\* HelperSpec: the helper functions of the binder and of the page, each called
\* directly with arguments of its own
\* ---------------------------------------------------------------------------

HelperContexts == MappingsOver(TemplateVariables("auction"), ValuesFor, MaxEntries)
HelperMissingKeys == SUBSET {"client_company", "proposal_date"}

HelperInit ==
    /\ proposals = <<>>
    /\ proposal_data = <<>>
    /\ session_state = InitSession
    /\ uploaded_files = <<>>
    /\ time = 0
    /\ client = TRUE
    /\ log = NoLog

Untouched == UNCHANGED <<proposals, proposal_data, session_state, uploaded_files, time, client>>

CallLoadTemplate ==
    /\ \E template_name \in CliTemplateNames :
        log' = [NoLog EXCEPT !.op = "load_jinja_template", !.template_name = template_name,
                             !.template_object = load_jinja_template(template_name)]
    /\ Untouched

\* find_jinja_placeholders catches every exception: nothing is raised to the caller
CallFindPlaceholders ==
    /\ \E template_name \in CliTemplateNames :
        log' = [NoLog EXCEPT !.op = "find_jinja_placeholders", !.template_name = template_name,
                             !.raised = "",
                             !.placeholders = find_jinja_placeholders(template_name)]
    /\ Untouched

CallFillTemplate ==
    /\ \E template \in TemplateNames, context_data \in HelperContexts, evaluation \in Evaluations :
        log' = [NoLog EXCEPT !.op = "fill_template_jinja", !.template_name = template,
                             !.bindings = context_data, !.render_called = TRUE,
                             !.evaluation = evaluation,
                             !.content = fill_template_jinja(template, context_data, evaluation)]
    /\ Untouched

CallBestGuesses ==
    /\ \E missing_keys \in HelperMissingKeys :
      \E answer \in GuessOutcomes({"client_company"}) :
        LET g == get_ai_best_guesses(client, EmptyDict, missing_keys,
                                     [ok |-> answer.kind = "reply", json |-> answer.json])
        IN log' = [NoLog EXCEPT !.op = "get_ai_best_guesses", !.guess_wanted = missing_keys,
                                !.reply = answer.json,
                                !.guess_called = g.called, !.guess_failed = g.failed,
                                !.guesses = g.guesses]
    /\ Untouched

HelperNext == CallLoadTemplate \/ CallFindPlaceholders \/ CallFillTemplate \/ CallBestGuesses

HelperSpec == HelperInit /\ [][HelperNext]_vars

\* C16 as stated: asked for the variables of a template whose source does not exist,
\* the binder fails with a template-not-found error; it returns no key set, so the
\* outcome differs from that of a template that references no variables (the empty set).
C16_MissingTemplateFails ==
    (log.op = "find_jinja_placeholders" /\ ~TemplateExists(log.template_name)) =>
        /\ log.raised = "TemplateNotFound"
        /\ log.placeholders # {}


\* the text fill_template_jinja returns when evaluation does not raise
Substituted(template, context_data) ==
    [k \in TemplateVariables(template) |->
        IF k \in DOMAIN context_data THEN context_data[k] ELSE Undefined]

\* C17 as stated: a render ends in an error exactly when the evaluation of the template
\* raises, and then no final content is kept (page) or saved (command line); in every
\* other case the substituted text is the final proposal content.
C17_RenderErrorIffRaises ==
    /\ log.render_called /\ log.op = "generate" =>
          IF log.evaluation = "raises"
          THEN session_state.final_proposal_content = None
          ELSE /\ session_state.final_proposal_content # None
               /\ session_state.final_proposal_content.text
                     = Substituted(session_state.template_object, log.bindings)
    /\ log.cli_outcome \in {"saved", "render error"} =>
          (log.cli_outcome = "render error" <=> log.evaluation = "raises")


\* C18: when the extraction call fails (the model call raised or its reply is no JSON)
\* the gateway answers with an error and no mapping; the upload step then creates no
\* proposal and no facts and leaves the proposal id of the session unset; and a step
\* that finds the same files in the uploader makes no further extraction call.
C18_ExtractionFailureNotRetried ==
    [][/\ log'.extract_failed =>
            /\ log'.extract_data = EmptyDict
            /\ proposals' = proposals
            /\ proposal_data' = proposal_data
            /\ session_state'.proposal_id = 0
       /\ (log.extract_failed /\ uploaded_files' = uploaded_files) => ~log'.extract_called
       /\ (session_state.proposal_id = 0 /\ session_state.uploaded_file_names # <<>>
              /\ uploaded_files' = session_state.uploaded_file_names)
            => ~log'.extract_called]_vars

\* an upload whose extraction call failed, with events still to come
C18_Witness ==
    /\ log.op = "upload"
    /\ log.extract_called /\ log.extract_failed
    /\ session_state.uploaded_file_names = uploaded_files
    /\ log.events < MaxEvents


\* C19: called with no missing key, get_ai_best_guesses returns the empty mapping as an
\* ordinary result and makes no call to the model.
C19_NoKeysNoCall ==
    (log.op = "get_ai_best_guesses" /\ log.guess_wanted = {}) =>
        /\ ~log.guess_called
        /\ ~log.guess_failed
        /\ log.guesses = EmptyDict

\* the function was called with no missing key while the model had an answer ready
C19_Witness ==
    /\ log.op = "get_ai_best_guesses"
    /\ log.guess_wanted = {}
    /\ log.reply # EmptyDict


\* C20 as stated: whenever an upload or a change of template brings the page to the
\* pre-fill step with a missing set that is not empty and a model client at hand, the
\* best-guess call is made with that missing set before the review form is drawn.
C20_PrefillAsksWheneverMissing ==
    (log.op \in {"upload", "select"} /\ log.prefill_reached
        /\ log.initial_missing_keys # {} /\ client) =>
        /\ log.guess_called
        /\ log.guess_wanted = log.initial_missing_keys


\* C21 as stated: each time the pre-fill step runs, the missing set it uses is the
\* template's variables minus the keys of the facts the store holds for the proposal
\* minus the calculated keys.
C21_MissingFromStoredFacts ==
    log.prefill_reached => log.initial_missing_keys = log.stored_missing_keys


\* the session's dictionary after the step holds everything view holds
ViewKept(view) ==
    \A k \in DOMAIN view :
        k \in DOMAIN session_state'.current_proposal_data
            /\ session_state'.current_proposal_data[k] = view[k]

\* C22: no step removes or alters a stored row: the rows before a step are the first
\* rows after it. When the save of the best guesses fails no guessed key gets a row
\* and the session still holds the guesses; when the save of a review submit fails the
\* store is as before and the session still holds its merged view.
C22_SavesOnlyAppend ==
    [][/\ Len(proposal_data') >= Len(proposal_data)
       /\ SubSeq(proposal_data', 1, Len(proposal_data)) = proposal_data
       /\ (log'.guesses # EmptyDict /\ ~log'.guess_saved) =>
            /\ NewRowKeys \cap DOMAIN log'.guesses = {}
            /\ ViewKept(log'.guesses)
       /\ (log'.submitted /\ log'.submit_valid /\ ~log'.submit_saved) =>
            /\ proposal_data' = proposal_data
            /\ ViewKept(session_state.current_proposal_data)]_vars

\* the seed facts were saved and the save of the best guesses failed in the same upload
C22_Witness ==
    /\ log.seed_saved
    /\ log.guesses # EmptyDict /\ ~log.guess_saved
    /\ proposal_data # <<>>


\* the rows a step appended
NewRows == SubSeq(proposal_data', Len(proposal_data) + 1, Len(proposal_data'))

\* a value of the submitted form is empty after trimming
SubmittedEmpty(lg) == \E k \in DOMAIN lg.final_edited_data : ~Truthy(lg.final_edited_data[k])

\* the step persisted one row per field of the form, with the value of the field as
\* text and every date as "%B %d, %Y", and left no key missing
SubmitPersisted ==
    /\ Len(NewRows) = Cardinality(DOMAIN log'.final_edited_data)
    /\ \A k \in DOMAIN log'.final_edited_data :
          /\ IsStr(log'.final_edited_data[k])
          /\ k \in date_keys => log'.final_edited_data[k].fmt = "%B %d, %Y"
          /\ \E i \in 1..Len(NewRows) :
                /\ NewRows[i].proposal_id = session_state.proposal_id
                /\ NewRows[i].key = k
                /\ NewRows[i].value = log'.final_edited_data[k]
    /\ DOMAIN log'.final_edited_data = session_state.template_placeholders \ calculated_keys
    /\ session_state'.missing_keys = {}
    /\ page_missing_keys' = {}

SubmitRejected ==
    /\ proposal_data' = proposal_data
    /\ session_state'.current_proposal_data = session_state.current_proposal_data

\* C23 as stated: a review submit with a field that is empty after trimming persists
\* nothing and leaves store and session view as they were; every other submit
\* persists exactly one fact per field and clears the missing set.
C23_SubmitAllOrRejected ==
    [][log'.submitted =>
          IF SubmittedEmpty(log') THEN SubmitRejected ELSE SubmitPersisted]_vars

\* C23 with the failing save set apart: a submit with an empty field is rejected; a
\* submit without one persists exactly one fact per field and clears the missing set
\* when the save succeeds, and leaves store and session view as they were when the
\* save fails.
C23_SubmitSavedOrRejected ==
    [][log'.submitted =>
          IF SubmittedEmpty(log') THEN SubmitRejected
          ELSE IF log'.submit_saved THEN SubmitPersisted
          ELSE SubmitRejected /\ log'.raised # ""]_vars

\* a submit with an empty text field, for a proposal that has stored facts
C23_Witness ==
    /\ log.submitted
    /\ SubmittedEmpty(log)
    /\ RowsOf(session_state.proposal_id) # {}


\* C24: a best-guess call that fails does not stop the page: the guess set is empty,
\* the pre-fill pass writes no fact (in an upload only the seed facts are new), the
\* defaults are still applied to every date and cost key that is not set, and the
\* review form is still shown.
C24_GuessFailureNotFatal ==
    [][(log'.guess_called /\ log'.guess_failed) =>
          /\ log'.guesses = EmptyDict
          /\ ~log'.guess_saved
          /\ Len(NewRows) = (IF log'.seed_saved THEN Cardinality(DOMAIN log'.extract_data) ELSE 0)
          /\ NewRowKeys \subseteq DOMAIN log'.extract_data
          /\ log'.defaults_applied
          /\ \A k \in date_keys \cup cost_keys :
                /\ k \in DOMAIN session_state'.current_proposal_data
                /\ k \notin DOMAIN log'.before_defaults =>
                      session_state'.current_proposal_data[k] = combined_defaults(time')[k]
          /\ log'.form_shown]_vars

\* a failed best-guess call after which a default filled a key that was not set
C24_Witness ==
    /\ log.guess_called /\ log.guess_failed
    /\ log.form_shown
    /\ \E k \in cost_keys : k \notin DOMAIN log.before_defaults


\* C25 as stated: at a render after a successful review submit, the marketing total
\* and the retainer bound to the template are the ones the five cost values of the
\* session's merged view (defaults applied) give, whatever cost keys the template has.
C25_RenderTotalMatchesView ==
    (log.render_called /\ log.op = "generate" /\ Current \in log.reviewed
        /\ CostsParse(session_state.current_proposal_data)) =>
        /\ log.bindings["marketing_total_budget"].n
              = TotalOf(session_state.current_proposal_data)
        /\ log.bindings["retainer_amount"].n
              = BaseRetainer - TotalOf(session_state.current_proposal_data)


\* C26 as stated: when the upload step fails after the extraction succeeded (the
\* creation of the proposal or the save of the seed facts raises), the proposal id and
\* name of the session are unset and the store holds no proposal the step created.
C26_FailedUploadLeavesNoProposal ==
    [][(log'.op = "upload" /\ log'.extract_called /\ ~log'.extract_failed
          /\ log'.raised # "") =>
          /\ session_state'.proposal_id = 0
          /\ session_state'.proposal_name = ""
          /\ proposals' = proposals]_vars


\* a value as the render binds it: a cost as its number, anything else as it is
Normalized(k, v) == IF k \in cost_keys THEN pyFloatOf(StripMoney(pyStr(v))).n ELSE v

\* C27: at a render that follows a saved review submit for the same proposal and
\* template, every field of the form is bound to the value that was submitted (a cost
\* as the number it spells, a date in the form "%B %d, %Y"), whatever rows the seed
\* extraction or the best guesses had stored for the key before.
C27_RenderBindsSubmitted ==
    (log.render_called /\ log.op = "generate"
        /\ log.last_submit.proposal_id = session_state.proposal_id
        /\ log.last_submit.template_name = session_state.template_name) =>
        \A k \in DOMAIN log.last_submit.data :
            /\ k \in DOMAIN log.bindings
            /\ Normalized(k, log.bindings[k]) = Normalized(k, log.last_submit.data[k])

\* a render after a submit that changed a value for which an earlier row is stored
C27_Witness ==
    /\ log.render_called /\ log.op = "generate"
    /\ log.last_submit.proposal_id = session_state.proposal_id
    /\ log.last_submit.template_name = session_state.template_name
    /\ \E k \in DOMAIN log.last_submit.data :
          \E i \in RowsOfKey(session_state.proposal_id, k) :
              /\ proposal_data[i].value # None
              /\ proposal_data[i].value # log.last_submit.data[k]


\* the session's merged view as the pre-fill step of the coming event finds it: the
\* extracted mapping in an upload, the dictionary of the session otherwise
ViewBeforePrefill ==
    IF log'.op = "upload" THEN log'.extract_data ELSE session_state.current_proposal_data

\* C28: the merge of the best guesses changes no key that the session's merged view
\* already holds: every key the pass writes, to the session and to the store, was in
\* the missing set computed just before the call, and that set has no key of the view.
C28_GuessMergeKeepsPresent ==
    [][(log'.guess_called /\ log'.guesses # EmptyDict) =>
          /\ log'.guess_wanted = log'.initial_missing_keys
          /\ log'.guess_wanted \cap DOMAIN ViewBeforePrefill = {}
          /\ DOMAIN log'.guesses \subseteq log'.guess_wanted
          /\ DOMAIN log'.before_defaults = DOMAIN ViewBeforePrefill \cup DOMAIN log'.guesses
          /\ \A k \in DOMAIN ViewBeforePrefill : log'.before_defaults[k] = ViewBeforePrefill[k]
          /\ NewRowKeys \subseteq DOMAIN log'.extract_data \cup log'.guess_wanted
          /\ \A i \in 1..Len(NewRows) :
                NewRows[i].key \in DOMAIN log'.guesses =>
                    NewRows[i].key \notin DOMAIN ViewBeforePrefill]_vars

\* guesses were merged into a view that already held facts, and saved
C28_Witness ==
    /\ log.guess_called /\ log.guess_saved
    /\ log.guesses # EmptyDict
    /\ log.extract_data # EmptyDict
    /\ DOMAIN log.guesses \cap DOMAIN log.extract_data = {}


\* C29: the five default dates are strictly increasing in the order proposal, contract,
\* advertising start, auction end, closing, and the closing date is always a Friday
\* exactly 30 days after the auction end, so the weekend adjustment never moves it.
C29_DatesIncreaseClosingFriday ==
    Calculated =>
        /\ DayOf("proposal_date") < DayOf("contract_date")
        /\ DayOf("contract_date") < DayOf("advertising_start_date")
        /\ DayOf("advertising_start_date") < DayOf("auction_end_date")
        /\ DayOf("auction_end_date") < DayOf("closing_date")
        /\ weekday(DayOf("closing_date")) = 4
        /\ DayOf("closing_date") = DayOf("auction_end_date") + 30
        /\ SkipWeekend(DayOf("auction_end_date") + 30) = DayOf("auction_end_date") + 30

\* the dates were calculated on a Sunday of the second week
C29_Witness ==
    /\ Calculated
    /\ weekday(log.today) = 6 /\ log.today >= 7
    /\ DayOf("closing_date") = DayOf("auction_end_date") + 30


\* ---------------------------------------------------------------------------
\* CycleSpec: one session over several review cycles: uploads of two files with
\* text, template selections, review submits and plain page runs
\* ---------------------------------------------------------------------------

MaxCycleEvents == 4

CycleUploadChoices == {<<"lot_7.txt">>, <<"lot_8.txt">>}

CycleHandle(S, ev, E) == log.events < MaxCycleEvents /\ Answer(Run(S, ev, E), S, ev, E)

CycleUpload ==
    \E files \in CycleUploadChoices, extract \in ExtractReplies :
        /\ files # uploaded_files
        /\ CycleHandle(Start("upload", files), NoEvent, Env(extract, 0, 0, 0, "text"))

CycleSelectTemplate ==
    \E i \in 1..Len(available_templates) :
        /\ session_state.proposal_id # 0
        /\ available_templates[i] # session_state.template_name
        /\ CycleHandle(Start("select", uploaded_files),
                       [NoEvent EXCEPT !.kind = "select", !.template = available_templates[i]], Quiet)

CycleSubmitForm ==
    \E review_fault \in Faults :
      \E edits \in MappingsOver(session_state.template_placeholders \ calculated_keys,
                               EditValuesFor, MaxEdits) :
        /\ session_state.template_object # "" /\ session_state.proposal_id # 0
        /\ CycleHandle(Start("submit", uploaded_files),
                       [NoEvent EXCEPT !.kind = "submit", !.edits = edits],
                       Env(FailedReply, 0, 0, review_fault, "text"))

CycleRerun == CycleHandle(Start("rerun", uploaded_files), NoEvent, Quiet)

CycleNext == CycleUpload \/ CycleSelectTemplate \/ CycleSubmitForm \/ CycleRerun

CycleSpec == Init /\ [][CycleNext]_vars

====
